---- MODULE Spec2Model ----
(***************************************************************************)
(* FairTest investigation orchestrator (src/src/fairtest/investigation.py): *)
(* the train -> test -> report pipeline over a list of Investigation        *)
(* objects sharing holdout objects.  Every pipeline function is one atomic  *)
(* action; the collaborator calls it makes are recorded, in order, in       *)
(* last.events.                                                             *)
(***************************************************************************)
EXTENDS Integers, Sequences, FiniteSets, TLC

\* ------------------------------------------------------------------ bounds
\* number of pipeline calls (train/test/report) explored in one behaviour; one
\* more call is explored after them when it is a train() of investigations that
\* a report() has displayed (the shortest such behaviour is train, test,
\* report, train)
MaxCalls == 3

\* the Investigation objects alive in the process
Invs == {1, 2}
Holdouts == {"h1", "h2"}

\* ------------------------------------------------------- python-like values
None == "None"
EmptyDict == [k \in {} |-> k]
\* d[k] = v on a dict
DictSet(d, k, v) == (k :> v) @@ d
\* the elements of a list, as a set
Elems(seq) == {seq[k] : k \in 1 .. Len(seq)}

\* a metric object (m) or a metric given by its string identifier (s)
MetricObj(m) == [kind |-> "obj", v |-> m]
MetricStr(s) == [kind |-> "str", v |-> s]
NoMetric == [kind |-> "none", v |-> None]

VARIABLES
  sens_features,   \* inv -> list of protected features (column order)
  metrics,         \* inv -> dict sens -> metric
  holdout,         \* inv -> holdout object
  trained_trees,   \* inv -> dict sens -> tree
  contexts,        \* inv -> dict sens -> contexts
  stats,           \* inv -> dict sens -> statistics
  train_params,    \* inv -> dict
  test_params,     \* inv -> dict
  display_params,  \* inv -> dict
  test_set_size,   \* inv -> int
  expl,            \* inv -> explanatory feature or None
  test_sets_drawn, \* holdout -> number of test sets handed out
  random_state,    \* inv -> seed
  train_set,       \* inv -> training population (its columns)
  feature_info,    \* inv -> dict column -> role
  py_random,       \* the process-wide generator of module random
  np_random,       \* the process-wide generator of numpy.random
  built,           \* a call of the Investigation constructor: arguments and outcome
  ms,              \* a call of make_schedule: arguments, position and locals
  last,            \* the last pipeline call: op, list, outcome, collaborator calls
                   \* (and, of a train() call, its parameters)
  ncalls           \* number of pipeline calls made

config == <<sens_features, metrics, holdout, random_state, train_set, feature_info>>
inv_fields == <<trained_trees, contexts, stats, train_params, test_params,
                display_params, test_set_size, expl>>
generators == <<py_random, np_random>>
vars == <<sens_features, metrics, holdout, trained_trees, contexts, stats,
          train_params, test_params, display_params, test_set_size, expl,
          test_sets_drawn, random_state, train_set, feature_info,
          py_random, np_random, built, ms, last, ncalls>>
\* the pipeline's variables
pipeline == <<sens_features, metrics, holdout, trained_trees, contexts, stats,
              train_params, test_params, display_params, test_set_size, expl,
              test_sets_drawn, random_state, train_set, feature_info, np_random,
              last, ncalls>>

\* the lists passed to the pipeline functions: non-empty lists of distinct
\* investigations
InvLists == {l \in UNION {[1 .. n -> Invs] : n \in 1 .. Cardinality(Invs)} :
               \A a, b \in 1 .. Len(l) : a # b => l[a] # l[b]}

\* the phase-ordering and consistency errors
NotTrainedError == "RuntimeError: Investigation was not trained"
HoldoutError == "RuntimeError: All tested investigations should use the same holdout set"
NotTestedError == "RuntimeError: Investigation was not tested"

\* a process-wide random generator: seeded by the process start (OS entropy) or
\* by a seed() call, and whether a collaborator that draws random numbers
\* (build_tree, compute_all_stats) has run since
Unseeded == [seeded |-> FALSE, seed |-> 0, drawn |-> FALSE]
Seeded(s) == [seeded |-> TRUE, seed |-> s, drawn |-> FALSE]
Drawn(g) == [g EXCEPT !.drawn = TRUE]

\* a collaborator call made by a pipeline function
Event(call, inv, sens, arg) == [call |-> call, inv |-> inv, sens |-> sens, arg |-> arg]

\* ------------------------------------------------- Investigation.__init__
\* The fields of a freshly constructed investigation.  The protected features
\* are columns of the training set, in column order; metrics is the dictionary
\* given by the caller (set_default_metrics of the base class adds nothing).
\* Holdout objects are interchangeable: the first investigation's is h1.
\* The investigations were constructed in the order 1, 2, the first without
\* random_state (seed 0), the second with random_state 7; each constructor
\* seeds module random, numpy.random is left as the process started it.
\* The training set has the protected columns, a contextual column and the
\* output column.
SensLists == {<<"s1">>, <<"s1", "s2">>}
DefaultMetric == MetricObj("m0")

\* no constructor call and no make_schedule call under way
NotBuilt == [done |-> FALSE]
MsIdle == [pc |-> "idle"]

PipelineInit ==
  /\ sens_features \in [Invs -> SensLists]
  /\ metrics \in {m \in [Invs -> {[s \in S |-> DefaultMetric] : S \in SUBSET {"s1", "s2"}}] :
                    \A i \in Invs : /\ DOMAIN m[i] \subseteq Elems(sens_features[i])
                                    /\ "s1" \in DOMAIN m[i]}
  /\ holdout \in {f \in [Invs -> Holdouts] : f[1] = "h1"}
  /\ trained_trees = [i \in Invs |-> EmptyDict]
  /\ contexts = [i \in Invs |-> EmptyDict]
  /\ stats = [i \in Invs |-> EmptyDict]
  /\ train_params = [i \in Invs |-> EmptyDict]
  /\ test_params = [i \in Invs |-> EmptyDict]
  /\ display_params = [i \in Invs |-> EmptyDict]
  /\ test_set_size = [i \in Invs |-> 0]
  /\ expl = [i \in Invs |-> None]
  /\ test_sets_drawn = [h \in Holdouts |-> 0]
  /\ random_state = [i \in Invs |-> IF i = 1 THEN 0 ELSE 7]
  /\ train_set = [i \in Invs |-> [columns |-> sens_features[i] \o <<"c1", "o">>]]
  /\ feature_info = [i \in Invs |->
                       [c \in Elems(sens_features[i]) \cup {"c1"} |->
                          IF c \in Elems(sens_features[i]) THEN "sens" ELSE "context"]]
  /\ py_random = Seeded(7)
  /\ np_random = Unseeded
  /\ last = [op |-> "init", invs |-> <<>>, result |-> "ok", events |-> <<>>]
  /\ ncalls = 0

Init == PipelineInit /\ built = NotBuilt /\ ms = MsIdle

\* ------------------------------------------------------------------ train
AGG_TYPES == {"avg", "weighted_avg", "max"}

\* (TrainArgError_NoBinsCheck: the checks without the one of max_bins)
TrainArgError_NoBinsCheck(max_depth, min_leaf_size, score_aggregation, max_bins) ==
  IF max_depth < 0 THEN "ValueError: max_depth must be non-negative"
  ELSE IF min_leaf_size <= 0 THEN "ValueError: min_leaf_size must be positive"
  ELSE IF score_aggregation \notin AGG_TYPES THEN "ValueError: score_aggregation"
  ELSE "ok"

\* the argument checks of train(), in source order
TrainArgError(max_depth, min_leaf_size, score_aggregation, max_bins) ==
  IF max_depth < 0 THEN "ValueError: max_depth must be non-negative"
  ELSE IF min_leaf_size <= 0 THEN "ValueError: min_leaf_size must be positive"
  ELSE IF score_aggregation \notin AGG_TYPES THEN "ValueError: score_aggregation"
  ELSE IF max_bins <= 0 THEN "ValueError: max_bins must be positive"
  ELSE "ok"

\* guided_tree.build_tree: the tree is a function of the arguments passed
build_tree(sens, e, metric, conf, max_depth, min_leaf_size, score_aggregation, max_bins) ==
  [sens |-> sens, expl |-> e, metric |-> metric, conf |-> conf,
   max_depth |-> max_depth, min_leaf_size |-> min_leaf_size,
   agg_type |-> score_aggregation, max_bins |-> max_bins]

\* holdout.test_set_conf
test_set_conf(h) == [conf_of |-> h]

\* the loops of train() and test() as one list of steps: for each investigation
\* of the list an "inv" step, followed by a "sens" step per protected feature
RECURSIVE Work(_, _)
Work(invs, k) ==
  IF k > Len(invs) THEN <<>>
  ELSE <<[kind |-> "inv", idx |-> k, inv |-> invs[k], sens |-> None]>>
       \o [j \in 1 .. Len(sens_features[invs[k]]) |->
             [kind |-> "sens", idx |-> k, inv |-> invs[k],
              sens |-> sens_features[invs[k]][j]]]
       \o Work(invs, k + 1)

\* the tree stored and the build_tree call recorded by one training step
StoreTree(st, w, tree) ==
  [st EXCEPT !.trained_trees[w.inv] = DictSet(@, w.sens, tree),
             !.py_random = Drawn(@),
             !.np_random = Drawn(@),
             !.events = Append(@, Event("build_tree", w.inv, w.sens,
                                        [tree |-> tree,
                                         py_random |-> st.py_random,
                                         np_random |-> st.np_random]))]

\* (TrainStep_KeepTree: a tree already stored for the feature is kept, as with
\* trained_trees.setdefault(sens, tree))
TrainStep_KeepTree(st, w, p) ==
  IF w.kind = "inv"
  THEN [st EXCEPT !.train_params[w.inv] =
           [max_depth |-> p.max_depth, min_leaf_size |-> p.min_leaf_size,
            agg_type |-> p.score_aggregation, max_bins |-> p.max_bins]]
  ELSE IF w.sens \notin DOMAIN metrics[w.inv]
  THEN [st EXCEPT !.err = "KeyError: metrics"]
  ELSE LET tree == build_tree(w.sens, expl[w.inv], metrics[w.inv][w.sens],
                              test_set_conf(holdout[w.inv]), p.max_depth,
                              p.min_leaf_size, p.score_aggregation, p.max_bins)
       IN StoreTree(st, w, IF w.sens \in DOMAIN st.trained_trees[w.inv]
                           THEN st.trained_trees[w.inv][w.sens] ELSE tree)

\* one step of the training loop on the running state st
TrainStep(st, w, p) ==
  IF w.kind = "inv"
  THEN [st EXCEPT !.train_params[w.inv] =
           [max_depth |-> p.max_depth, min_leaf_size |-> p.min_leaf_size,
            agg_type |-> p.score_aggregation, max_bins |-> p.max_bins]]
  ELSE IF w.sens \notin DOMAIN metrics[w.inv]
  THEN [st EXCEPT !.err = "KeyError: metrics"]
  ELSE LET tree == build_tree(w.sens, expl[w.inv], metrics[w.inv][w.sens],
                              test_set_conf(holdout[w.inv]), p.max_depth,
                              p.min_leaf_size, p.score_aggregation, p.max_bins)
       IN StoreTree(st, w, tree)

RECURSIVE TrainLoop(_, _, _, _)
TrainLoop(st, work, k, p) ==
  IF k > Len(work) \/ st.err # "ok" THEN st
  ELSE TrainLoop(TrainStep(st, work[k], p), work, k + 1, p)

\* (TrainOutcome_OnceOnly: train() refusing a list that holds an investigation
\* already trained)
TrainOutcome_OnceOnly(invs, p) ==
  LET st0 == [trained_trees |-> trained_trees, train_params |-> train_params,
              py_random |-> py_random, np_random |-> np_random,
              events |-> <<>>, err |-> "ok"]
      argerr == TrainArgError(p.max_depth, p.min_leaf_size, p.score_aggregation, p.max_bins)
  IN IF argerr # "ok" THEN [st0 EXCEPT !.err = argerr]
     ELSE IF \E k \in 1 .. Len(invs) : trained_trees[invs[k]] # EmptyDict
     THEN [st0 EXCEPT !.err = "RuntimeError: Investigation was already trained"]
     ELSE TrainLoop(st0, Work(invs, 1), 1, p)

\* the outcome of train(investigations, ...) in the current state
TrainOutcome(invs, p) ==
  LET st0 == [trained_trees |-> trained_trees, train_params |-> train_params,
              py_random |-> py_random, np_random |-> np_random,
              events |-> <<>>, err |-> "ok"]
      argerr == TrainArgError(p.max_depth, p.min_leaf_size, p.score_aggregation, p.max_bins)
  IN IF argerr # "ok" THEN [st0 EXCEPT !.err = argerr]
     ELSE TrainLoop(st0, Work(invs, 1), 1, p)

\* the arguments of the train() calls explored: two valid settings (two
\* different trees) and one call per argument check
TrainDefaults == [max_depth |-> 5, min_leaf_size |-> 1,
                  score_aggregation |-> "avg", max_bins |-> 1]
TrainArgs == {TrainDefaults,
              [TrainDefaults EXCEPT !.max_depth = 0],
              [TrainDefaults EXCEPT !.max_depth = -1],
              [TrainDefaults EXCEPT !.min_leaf_size = 0],
              [TrainDefaults EXCEPT !.max_bins = 0],
              [TrainDefaults EXCEPT !.score_aggregation = "bogus"]}

\* an investigation a report() call has reached (line 377 has set its
\* display_params), in the list
Reported(invs) == \E k \in 1 .. Len(invs) : display_params[invs[k]] # EmptyDict

train(invs, p) ==
  /\ \/ ncalls < MaxCalls
     \/ ncalls = MaxCalls /\ last.op = "report" /\ Reported(invs)
  /\ \E out \in {TrainOutcome(invs, p)} :
        /\ trained_trees' = out.trained_trees
        /\ train_params' = out.train_params
        /\ py_random' = out.py_random
        /\ np_random' = out.np_random
        /\ last' = [op |-> "train", invs |-> invs, args |-> p, result |-> out.err,
                    events |-> out.events]
  /\ ncalls' = ncalls + 1
  /\ UNCHANGED <<config, contexts, stats, test_params, display_params,
                 test_set_size, expl, test_sets_drawn, built, ms>>

\* ------------------------------------------------------- metric_from_string
\* The metric classes named in metric_from_string are not bound in the module
\* (nothing imports them), so building any recognised metric raises NameError;
\* an unrecognised identifier reaches the final raise.
KnownMetricNames == {"NMI", "MI", "CORR", "DIFF", "RATIO", "REGRESSION",
                     "CondDIFF", "CondNMI", "CondCorr"}
metric_from_string(m_str) ==
  IF m_str \in KnownMetricNames
  THEN [err |-> "NameError: metric class", metric |-> NoMetric]
  ELSE [err |-> "ValueError: Unknown fairness Metric", metric |-> NoMetric]

\* ------------------------------------------------------------------- holdout
\* holdout.get_test_set(): the k-th test set handed out by holdout h.  seen_by
\* records the investigations whose preprocess_test_data received the object.
get_test_set(h, k) == [holdout |-> h, draw |-> k, rows |-> k, seen_by |-> {}]
len(data) == data.rows

\* (data_copy_Alias: `data = test_data' without the copy names test_data itself)
\* data = test_data.copy(): the object that `data' names for the investigation
\* at position idx: a new object (slot idx of the heap; slot 0 is test_data)
data_copy_Alias(idx) == 0
data_copy(idx) == idx

\* inv.preprocess_test_data(data): returns the object it was given
preprocess_test_data(inv, data) == [data EXCEPT !.seen_by = @ \cup {inv}]

\* tree_parser.find_contexts: the contexts are a function of the arguments passed
find_contexts(tree, data, sens, e, prune_insignificant, new_metric) ==
  [tree |-> tree, data |-> data, sens |-> sens, expl |-> e,
   prune |-> prune_insignificant, metric |-> new_metric]

\* multitest.compute_all_stats(investigations, exact, conf, correct): one
\* statistics entry per protected feature with contexts, for every
\* investigation of the list, corrected over the whole family
NumHypotheses(ctx, invs) ==
  Cardinality({<<i, s>> \in Invs \X {"s1", "s2"} : i \in Elems(invs) /\ s \in DOMAIN ctx[i]})
compute_all_stats(st_stats, ctx, invs, exact, conf, correct) ==
  [i \in Invs |->
     IF i \in Elems(invs)
     THEN [s \in DOMAIN ctx[i] |->
             [of |-> ctx[i][s], exact |-> exact, conf |-> conf, correct |-> correct,
              family |-> NumHypotheses(ctx, invs)]]
     ELSE st_stats[i]]

\* --------------------------------------------------------------------- test
\* an optional list argument: None, or the list given
NoList == [given |-> FALSE, list |-> <<>>]
GivenList(l) == [given |-> TRUE, list |-> l]
\* new_metrics=None stands for one empty dict per investigation
NewMetricsList(invs, new_metrics) ==
  IF ~new_metrics.given THEN [k \in 1 .. Len(invs) |-> EmptyDict] ELSE new_metrics.list
NewExplList(invs, new_expl) ==
  IF ~new_expl.given THEN [k \in 1 .. Len(invs) |-> None] ELSE new_expl.list

\* the checks of test() on its list arguments, in source order
TestArgError(invs, nm, ne) ==
  IF Len(nm) # Len(invs) THEN "ValueError: new_metrics"
  ELSE IF Len(ne) # Len(invs) THEN "ValueError: new_expl"
  ELSE IF Len(invs) = 0 THEN "IndexError: investigations[0]"
  ELSE "ok"

\* the test of an investigation for having been trained
\* (NotTrained_IsNone: `inv.trained_trees is None', which no dict satisfies)
NotTrained_IsNone(inv) == FALSE
NotTrained(inv) == trained_trees[inv] = EmptyDict

\* the test of an investigation for using another holdout than the first's
\* (DifferentHoldout_Self: the holdout compared with inv.holdout itself)
DifferentHoldout_Self(inv, first) == holdout[inv] # holdout[inv]
DifferentHoldout(inv, first) == holdout[inv] # holdout[first]

\* the loop of checks before the test set is drawn: the first failing check
RECURSIVE TestPhaseError(_, _)
TestPhaseError(invs, k) ==
  IF k > Len(invs) THEN "ok"
  ELSE IF NotTrained(invs[k]) THEN NotTrainedError
  ELSE IF DifferentHoldout(invs[k], invs[1]) THEN HoldoutError
  ELSE TestPhaseError(invs, k + 1)

\* one step of the testing loop on the running state st; st.heap[0] is the
\* test set drawn, st.data the heap slot of the object that `data' names
TestStep(st, w, a, nm, ne) ==
  IF w.kind = "inv"
  THEN LET ref == data_copy(w.idx)
           heap1 == [st.heap EXCEPT ![ref] = st.heap[0]]
           heap2 == [heap1 EXCEPT ![ref] = preprocess_test_data(w.inv, @)]
       IN [st EXCEPT
             !.test_params[w.inv] = [prune_insignificant |-> a.prune_insignificant,
                                     exact |-> a.exact,
                                     family_conf |-> test_set_conf(holdout[w.inv])],
             !.heap = heap2,
             !.data = ref,
             !.test_set_size[w.inv] = len(heap2[ref]),
             !.expl[w.inv] = IF ne[w.idx] # None THEN ne[w.idx] ELSE @]
  ELSE LET given == IF w.sens \in DOMAIN nm[w.idx] THEN nm[w.idx][w.sens] ELSE NoMetric
           looked == IF given.kind = "str" THEN metric_from_string(given.v)
                     ELSE [err |-> "ok", metric |-> given]
           st1 == IF given.kind = "str"
                  THEN [st EXCEPT !.events = Append(@, Event("metric_from_string", w.inv,
                                                             w.sens, given.v))]
                  ELSE st
       IN IF looked.err # "ok" THEN [st1 EXCEPT !.err = looked.err]
          ELSE IF w.sens \notin DOMAIN trained_trees[w.inv]
          THEN [st1 EXCEPT !.err = "KeyError: trained_trees"]
          ELSE LET c == find_contexts(trained_trees[w.inv][w.sens],
                                      st.heap[st.data], w.sens,
                                      st.expl[w.inv], a.prune_insignificant,
                                      looked.metric)
               IN [st1 EXCEPT !.contexts[w.inv] = DictSet(@, w.sens, c),
                              !.events = Append(@, Event("find_contexts", w.inv, w.sens, c))]

RECURSIVE TestLoop(_, _, _, _, _, _)
TestLoop(st, work, k, a, nm, ne) ==
  IF k > Len(work) \/ st.err # "ok" THEN st
  ELSE TestLoop(TestStep(st, work[k], a, nm, ne), work, k + 1, a, nm, ne)

\* what test() does when its body past the draw ends in an error
OnTestError(st, h) == st

\* np.random.seed(investigations[0].random_state): the generator after the call
np_random_seed(s) == Seeded(s)

\* (TestFinish_Always: the joint validation run whether or not the extraction
\* loop completed)
TestFinish_Always(st, invs, a, h) ==
  [st EXCEPT
     !.stats = compute_all_stats(st.stats, st.contexts, invs, a.exact,
                                 test_set_conf(h), a.correct),
     !.np_random = Drawn(np_random_seed(random_state[invs[1]])),
     !.py_random = Drawn(@),
     !.events = @ \o <<Event("np.random.seed", invs[1], None, random_state[invs[1]]),
                       Event("compute_all_stats", 0, None, invs)>>]

\* the end of test(): the joint validation once every context is extracted
TestFinish(st, invs, a, h) ==
  IF st.err # "ok" THEN OnTestError(st, h)
  ELSE [st EXCEPT
          !.stats = compute_all_stats(st.stats, st.contexts, invs, a.exact,
                                      test_set_conf(h), a.correct),
          !.np_random = Drawn(np_random_seed(random_state[invs[1]])),
          !.py_random = Drawn(@),
          !.events = @ \o <<Event("np.random.seed", invs[1], None, random_state[invs[1]]),
                            Event("compute_all_stats", 0, None, invs)>>]

\* test() from the draw of the test set on
TestBody(st0, invs, a, nm, ne, h, k, test_data) ==
  TestFinish(TestLoop([st0 EXCEPT
                         !.test_sets_drawn[h] = k,
                         !.heap = [j \in 0 .. Len(invs) |-> test_data],
                         !.events = <<Event("get_test_set", 0, None, test_data)>>],
                      Work(invs, 1), 1, a, nm, ne),
             invs, a, h)

\* the outcome of test(investigations, ...) in the current state
TestOutcome(invs, a) ==
  LET nm == NewMetricsList(invs, a.new_metrics)
      ne == NewExplList(invs, a.new_expl)
      st0 == [contexts |-> contexts, stats |-> stats, test_params |-> test_params,
              test_set_size |-> test_set_size, expl |-> expl,
              test_sets_drawn |-> test_sets_drawn, heap |-> <<>>, data |-> 0,
              py_random |-> py_random, np_random |-> np_random,
              events |-> <<>>, err |-> "ok"]
      argerr == TestArgError(invs, nm, ne)
  IN IF argerr # "ok" THEN [st0 EXCEPT !.err = argerr]
     ELSE LET phaseerr == TestPhaseError(invs, 1)
              h == holdout[invs[1]]
              k == test_sets_drawn[h] + 1
          IN IF phaseerr # "ok" THEN [st0 EXCEPT !.err = phaseerr]
             ELSE TestBody(st0, invs, a, nm, ne, h, k, get_test_set(h, k))

\* the arguments of the test() calls explored
TestDefaults == [prune_insignificant |-> TRUE, exact |-> TRUE, correct |-> TRUE,
                 new_metrics |-> NoList, new_expl |-> NoList]
TestArgs(invs) ==
  {TestDefaults,
   [TestDefaults EXCEPT !.prune_insignificant = FALSE],
   [TestDefaults EXCEPT !.new_metrics = GivenList(<<EmptyDict, EmptyDict, EmptyDict>>)],
   [TestDefaults EXCEPT !.new_metrics = GivenList([k \in 1 .. Len(invs) |-> [s2 |-> MetricStr("bogus")]])],
   [TestDefaults EXCEPT !.new_metrics = GivenList([k \in 1 .. Len(invs) |-> [s1 |-> MetricStr("NMI")]])],
   [TestDefaults EXCEPT !.new_metrics = GivenList([k \in 1 .. Len(invs) |-> [s1 |-> MetricObj("m1")]])],
   [TestDefaults EXCEPT !.new_expl = GivenList(<<None, None, None>>)],
   [TestDefaults EXCEPT !.new_expl = GivenList([k \in 1 .. Len(invs) |-> "e1"])]}

test(invs, a) ==
  /\ ncalls < MaxCalls
  /\ \E out \in {TestOutcome(invs, a)} :
        /\ contexts' = out.contexts
        /\ stats' = out.stats
        /\ test_params' = out.test_params
        /\ test_set_size' = out.test_set_size
        /\ expl' = out.expl
        /\ test_sets_drawn' = out.test_sets_drawn
        /\ py_random' = out.py_random
        /\ np_random' = out.np_random
        /\ last' = [op |-> "test", invs |-> invs, result |-> out.err,
                    events |-> out.events]
  /\ ncalls' = ncalls + 1
  /\ UNCHANGED <<config, trained_trees, train_params, display_params, built, ms>>

\* ------------------------------------------------------------------- report
NODE_FILTERS == {"all", "leaves", "root", "better_than_ancestors"}

\* the argument checks of report(), in source order; filter_conf in percent
ReportArgError(filter_conf, node_filter) ==
  IF ~(0 <= filter_conf /\ filter_conf < 100) THEN "ValueError: filter_conf"
  ELSE IF node_filter \notin NODE_FILTERS THEN "ValueError: node_filter"
  ELSE "ok"

\* the test of an investigation for having been tested
\* (NotTested_Contexts: `not inv.contexts' in place of `not inv.stats')
NotTested_Contexts(inv) == contexts[inv] = EmptyDict
NotTested(inv) == stats[inv] = EmptyDict

RECURSIVE ReportPhaseError(_, _)
ReportPhaseError(invs, k) ==
  IF k > Len(invs) THEN "ok"
  ELSE IF NotTested(invs[k]) THEN NotTestedError
  ELSE ReportPhaseError(invs, k + 1)

\* the name of the report file of the investigation at position idx
ReportFile(invs, idx) == IF Len(invs) > 1 THEN <<"report", idx>> ELSE <<"report">>

\* whether report() returns right after the bug report of this investigation
ReturnsAfterBugReport(inv) == Len(sens_features[inv]) = 1

\* one step of the reporting loop on the running state st; st.open is whether
\* the output stream of the current investigation is a file still open
ReportStep(st, w, a, invs) ==
  IF w.kind = "inv"
  THEN LET closed == IF st.open THEN Append(st.events, Event("close", st.cur, None, None))
                     ELSE st.events
           st1 == [st EXCEPT !.display_params[w.inv] = [node_filter |-> a.node_filter],
                             !.events = closed, !.open = FALSE, !.cur = w.inv]
       IN IF a.output_dir = None
          THEN [st1 EXCEPT !.events = Append(@, Event("print_report_info", w.inv, None, None))]
          ELSE IF a.output_dir = "missing"
          THEN [st1 EXCEPT !.err = "IOError: Directory does not exist"]
          ELSE [st1 EXCEPT
                  !.events = @ \o <<Event("open", w.inv, None, ReportFile(invs, w.idx)),
                                    Event("print_report_info", w.inv, None, None)>>,
                  !.open = TRUE]
  ELSE IF w.sens \notin DOMAIN metrics[w.inv] THEN [st EXCEPT !.err = "KeyError: metrics"]
  ELSE IF w.sens \notin DOMAIN stats[w.inv] THEN [st EXCEPT !.err = "KeyError: stats"]
  ELSE IF w.sens \notin DOMAIN contexts[w.inv] THEN [st EXCEPT !.err = "KeyError: contexts"]
  ELSE LET rep == [contexts |-> contexts[w.inv][w.sens], stats |-> stats[w.inv][w.sens],
                   metric |-> metrics[w.inv][w.sens], conf |-> a.filter_conf,
                   node_filter |-> a.node_filter]
           st1 == [st EXCEPT !.events = Append(@, Event("bug_report", w.inv, w.sens, rep))]
       IN IF ReturnsAfterBugReport(w.inv)
          THEN [st1 EXCEPT !.events = IF st.open
                                      THEN Append(@, Event("close", w.inv, None, None))
                                      ELSE @,
                           !.open = FALSE, !.returned = TRUE]
          ELSE st1

RECURSIVE ReportLoop(_, _, _, _, _)
ReportLoop(st, work, k, a, invs) ==
  IF k > Len(work) \/ st.err # "ok" \/ st.returned THEN st
  ELSE ReportLoop(ReportStep(st, work[k], a, invs), work, k + 1, a, invs)

\* the end of report(): the stream of the last investigation is closed
ReportFinish(st) ==
  IF st.err = "ok" /\ st.open
  THEN [st EXCEPT !.events = Append(@, Event("close", st.cur, None, None)), !.open = FALSE]
  ELSE st

\* the outcome of report(investigations, ...) in the current state
ReportOutcome(invs, a) ==
  LET st0 == [display_params |-> display_params, events |-> <<>>, err |-> "ok",
              open |-> FALSE, cur |-> 0, returned |-> FALSE]
      argerr == ReportArgError(a.filter_conf, a.node_filter)
  IN IF argerr # "ok" THEN [st0 EXCEPT !.err = argerr]
     ELSE LET phaseerr == ReportPhaseError(invs, 1)
          IN IF phaseerr # "ok" THEN [st0 EXCEPT !.err = phaseerr]
             ELSE ReportFinish(ReportLoop(st0, Work(invs, 1), 1, a, invs))

\* the arguments of the report() calls explored
ReportDefaults == [filter_conf |-> 95, node_filter |-> "better_than_ancestors",
                   output_dir |-> None]
ReportArgs == {ReportDefaults,
               [ReportDefaults EXCEPT !.filter_conf = 100],
               [ReportDefaults EXCEPT !.node_filter = "bogus"],
               [ReportDefaults EXCEPT !.output_dir = "dir"],
               [ReportDefaults EXCEPT !.output_dir = "missing"]}

report(invs, a) ==
  /\ ncalls < MaxCalls
  /\ \E out \in {ReportOutcome(invs, a)} :
        /\ display_params' = out.display_params
        /\ last' = [op |-> "report", invs |-> invs, result |-> out.err,
                    events |-> out.events]
  /\ ncalls' = ncalls + 1
  /\ UNCHANGED <<config, generators, trained_trees, contexts, stats, train_params,
                 test_params, test_set_size, expl, test_sets_drawn, built, ms>>

Next ==
  \/ \E invs \in InvLists, p \in TrainArgs : train(invs, p)
  \/ \E invs \in InvLists : \E a \in TestArgs(invs) : test(invs, a)
  \/ \E invs \in InvLists, a \in ReportArgs : report(invs, a)

Spec == Init /\ [][Next]_vars

\* --------------------------------- Investigation.__init__ on its arguments
\* Column and feature names are python strings, here sequences of characters;
\* an argument is a string (v holds it), a list of strings (v is the list) or
\* None.
PyStr(s) == [kind |-> "str", v |-> <<s>>]
PyList(l) == [kind |-> "list", v |-> l]
PyNone == [kind |-> "none", v |-> <<>>]
\* `not x': None, the empty string and the empty list are false
py_not(x) == IF x.kind = "str" THEN x.v[1] = <<>> ELSE x.v = <<>>
\* `x in c' for a string x: membership in a list, substring of a string
IsSubstring(x, s) == \E i \in 0 .. Len(s) - Len(x) : SubSeq(s, i + 1, i + Len(x)) = x
py_in(x, c) == IF c.kind = "str" THEN IsSubstring(x, c.v[1]) ELSE x \in Elems(c.v)
\* `for x in c': the elements of a list, the characters of a string
py_iter(c) == IF c.kind = "str" THEN [k \in 1 .. Len(c.v[1]) |-> <<c.v[1][k]>>] ELSE c.v
\* np.asarray([output]).flatten(): the names of the output columns
flatten(output) == output.v
\* the columns left, in order, when the columns named are removed
RECURSIVE Without(_, _)
Without(columns, names) ==
  IF columns = <<>> THEN <<>>
  ELSE (IF Head(columns) \in names THEN <<>> ELSE <<Head(columns)>>)
       \o Without(Tail(columns), names)

\* (drop_columns_Unassigned: `self.train_set.drop(col, axis=1)' with its result
\* not assigned)
drop_columns_Unassigned(columns, to_drop) ==
  [err |-> IF Elems(py_iter(to_drop)) \subseteq Elems(columns) THEN "ok"
           ELSE "KeyError: to_drop",
   columns |-> columns]
\* the drops of names[k], names[k+1], ... in turn, each on the columns the
\* drop before it has left: DataFrame.drop raises KeyError for a label that is
\* not a column
RECURSIVE DropEach(_, _, _)
DropEach(columns, names, k) ==
  IF k > Len(names) THEN [err |-> "ok", columns |-> columns]
  ELSE IF names[k] \notin Elems(columns) THEN [err |-> "KeyError: to_drop", columns |-> columns]
  ELSE DropEach(Without(columns, {names[k]}), names, k + 1)
\* if to_drop is not None:
\*   for col in to_drop: self.train_set = self.train_set.drop(col, axis=1)
drop_columns(columns, to_drop) ==
  IF to_drop.kind = "none" THEN [err |-> "ok", columns |-> columns]
  ELSE DropEach(columns, py_iter(to_drop), 1)

\* the roles given to the columns that are not output columns
FeatureTypes(columns, protected, e, output) ==
  [col \in Elems(Without(columns, Elems(flatten(output)))) |->
     IF py_in(col, protected) THEN "sens"
     ELSE IF py_in(col, e) THEN "expl"
     ELSE "context"]

\* the outcome of Investigation(data_source, protected, output, expl, metrics,
\* random_state, to_drop) on a data source whose training set has a.columns
Investigation_init(a) ==
  LET dropped == drop_columns(a.columns, a.to_drop)
      columns == dropped.columns
      sens_names == py_iter(a.protected)
      e == IF a.expl.kind = "none" THEN PyList(<<>>) ELSE a.expl
      info == FeatureTypes(columns, a.protected, e, a.output)
      kept == Without(columns, Elems(flatten(a.output)))
      IsSens(col) == info[col] = "sens"
      IsExpl(col) == info[col] = "expl"
      expl_list == SelectSeq(kept, IsExpl)
      Raise(err) == [done |-> TRUE, args |-> a, err |-> err, seeded |-> FALSE]
      RaiseSeeded(err) == [done |-> TRUE, args |-> a, err |-> err, seeded |-> TRUE]
  IN IF py_not(a.protected)
     THEN Raise("ValueError: at least one protected feature must be specified")
     ELSE IF py_not(a.output)
     THEN Raise("ValueError: at least one output feature must be specified")
     ELSE IF dropped.err # "ok"
     THEN RaiseSeeded(dropped.err)
     ELSE IF \E k \in 1 .. Len(sens_names) : sens_names[k] \notin Elems(columns)
     THEN RaiseSeeded("ValueError: Feature not found")
     ELSE IF \E k \in 1 .. Len(flatten(a.output)) : flatten(a.output)[k] \notin Elems(columns)
     THEN RaiseSeeded("ValueError: Target not found")
     ELSE [done |-> TRUE, args |-> a, err |-> "ok", seeded |-> TRUE,
           train_set |-> [columns |-> columns],
           feature_info |-> info,
           sens_features |-> SelectSeq(kept, IsSens),
           expl |-> IF expl_list = <<>> THEN PyNone ELSE PyStr(expl_list[1]),
           random_state |-> a.random_state,
           trained_trees |-> EmptyDict, contexts |-> EmptyDict, stats |-> EmptyDict]

\* the constructor calls explored: a training set with a protected column s,
\* the columns a and ab, and the output column o
Columns == <<<<"s">>, <<"a">>, <<"a", "b">>, <<"o">>>>
ProtectedArgs == {PyList(<<>>), PyList(<<<<"s">>>>), PyList(<<<<"s">>, <<"a">>>>),
                  PyList(<<<<"x">>>>), PyList(<<<<"s">>, <<"x">>>>)}
OutputArgs == {PyStr(<<"o">>), PyStr(<<>>), PyList(<<>>), PyList(<<<<"o">>>>),
               PyStr(<<"x">>), PyList(<<<<"o">>, <<"a", "b">>>>)}
ExplArgs == {PyNone, PyList(<<<<"a", "b">>>>), PyStr(<<"a", "b">>), PyList(<<<<"s">>>>),
             PyStr(<<>>)}
ToDropArgs == {PyNone, PyList(<<<<"a">>>>), PyList(<<<<"s">>>>), PyList(<<<<"o">>>>),
               PyList(<<<<"x">>>>), PyList(<<<<"a">>, <<"a">>>>),
               PyList(<<<<"a">>, <<"a", "b">>>>)}
RandomStateArgs == {0, 7}

\* the pipeline's variables held at one initial value
PipelineIdle ==
  /\ PipelineInit
  /\ \A i \in Invs : /\ sens_features[i] = <<"s1">>
                      /\ holdout[i] = "h1"

InvestigationInit ==
  /\ PipelineIdle
  /\ ms = MsIdle
  /\ built \in {[done |-> FALSE,
                  args |-> [columns |-> Columns, protected |-> p, output |-> o,
                            expl |-> e, to_drop |-> d, random_state |-> r]] :
                   p \in ProtectedArgs, o \in OutputArgs, e \in ExplArgs,
                   d \in ToDropArgs, r \in RandomStateArgs}

\* the constructor runs on the arguments drawn; it seeds module random once
\* its first checks are passed
Investigation(a) ==
  /\ ~built.done
  /\ built.args = a
  /\ built' = Investigation_init(a)
  /\ py_random' = IF built'.seeded THEN Seeded(a.random_state) ELSE py_random
  /\ UNCHANGED <<pipeline, ms>>

InvestigationNext == \E a \in {built.args} : Investigation(a)

InvestigationSpec == InvestigationInit /\ [][InvestigationNext]_vars

\* ------------------------------------------------------------ make_schedule
\* (src/docs/apps/scheduling/scheduling.py)  weights is a dict from a shift to
\* a list of (zipcode, weight) pairs, here the sequence of its (shift, list)
\* items in insertion order, which is the order a loop over the dict follows;
\* a weight is a fraction, here a number of quarters.
\* The function runs one loop iteration per step.
\* largest total_units, longest weight list, and the number of allocated units
\* up to which a top-up loop is followed
MaxUnits == 3
MaxZips == 2
MaxAllocated == 6
Quarter == 4
Zipcodes == {"z1", "z2"}
WeightQuarters == {0, 1, 2, 3, 4}
WeightLists == UNION {[1 .. n -> Zipcodes \X WeightQuarters] : n \in 1 .. MaxZips}
\* the weights tables explored: one shift with any list, or a second shift
\* with one of two lists, inserted after or before the first
SecondShiftLists == {<<<<"z1", 4>>>>, <<<<"z2", 2>>, <<"z1", 2>>>>}
WeightTables == {<<<<1, l>>>> : l \in WeightLists}
                \cup {<<<<1, l>>, <<2, l2>>>> : l \in WeightLists, l2 \in SecondShiftLists}
                \cup {<<<<2, l2>>, <<1, l>>>> : l \in WeightLists, l2 \in SecondShiftLists}

\* int(weight * total_units) for a weight of q quarters
units_of(q, total_units) == (q * total_units) \div Quarter
\* `for shift in weights': the keys of the dict in insertion order
ShiftOrder(weights) == [n \in 1 .. Len(weights) |-> weights[n][1]]
\* weights[shift]
WeightsOf(weights, shift) ==
  weights[CHOOSE n \in 1 .. Len(weights) : weights[n][1] = shift][2]

\* the call make_schedule(weights, total_units) at its first statement
make_schedule(weights, total_units) ==
  [pc |-> "alloc", weights |-> weights, total_units |-> total_units,
   shifts |-> ShiftOrder(weights), i |-> 1, allocated |-> 0,
   schedule |-> [s \in {1, 2, 3} |-> EmptyDict], err |-> "ok"]

ScheduleInit ==
  /\ PipelineIdle
  /\ built = NotBuilt
  /\ ms \in {make_schedule(w, u) : w \in WeightTables, u \in 1 .. MaxUnits}

\* the list of the shift being scheduled
CurrentList == WeightsOf(ms.weights, ms.shifts[1])
\* make_schedule touches nothing of the investigations
ScheduleFrame == UNCHANGED <<pipeline, py_random, built>>

\* one iteration of the loop dedicating units by percentage of reports
ms_dedicate ==
  /\ ms.pc = "alloc" /\ ms.i <= Len(CurrentList)
  /\ LET zipcode == CurrentList[ms.i][1]
         units == units_of(CurrentList[ms.i][2], ms.total_units)
     IN ms' = IF units < 1 THEN [ms EXCEPT !.i = @ + 1]
              ELSE [ms EXCEPT !.schedule[ms.shifts[1]] = DictSet(@, zipcode, units),
                              !.allocated = @ + units,
                              !.i = @ + 1]
  /\ ScheduleFrame

\* the end of that loop: `if not allocated: raise', else the top-up loop starts
ms_dedicated ==
  /\ ms.pc = "alloc" /\ ms.i > Len(CurrentList)
  /\ ms' = IF ms.allocated = 0
           THEN [ms EXCEPT !.pc = "raised", !.err = "Exception: Too few units"]
           ELSE [ms EXCEPT !.pc = "topup", !.i = 1]
  /\ ScheduleFrame

\* one iteration of the for loop inside `while True'
ms_topup ==
  /\ ms.pc = "topup" /\ ms.i <= Len(CurrentList)
  /\ LET zipcode == CurrentList[ms.i][1]
     IN IF ms.allocated = ms.total_units
        THEN ms' = [ms EXCEPT !.pc = "while"]
        ELSE IF zipcode \notin DOMAIN ms.schedule[ms.shifts[1]]
        THEN ms' = [ms EXCEPT !.i = @ + 1]
        ELSE /\ ms.allocated < MaxAllocated
             /\ ms' = [ms EXCEPT !.schedule[ms.shifts[1]][zipcode] = @ + 1,
                                 !.allocated = @ + 1,
                                 !.i = @ + 1]
  /\ ScheduleFrame

\* the for loop inside `while True' has gone through the list
ms_topup_end ==
  /\ ms.pc = "topup" /\ ms.i > Len(CurrentList)
  /\ ms' = [ms EXCEPT !.pc = "while"]
  /\ ScheduleFrame

\* the test closing `while True': leave the loop when every unit is allocated
\* (on to the next shift, or to the return past the last one), else go round
ms_while ==
  /\ ms.pc = "while"
  /\ ms' = IF ms.allocated # ms.total_units THEN [ms EXCEPT !.pc = "topup", !.i = 1]
           ELSE IF Len(ms.shifts) > 1
           THEN [ms EXCEPT !.pc = "alloc", !.shifts = Tail(@), !.i = 1, !.allocated = 0]
           ELSE [ms EXCEPT !.pc = "done"]
  /\ ScheduleFrame

ScheduleNext ==
  \/ ms_dedicate
  \/ ms_dedicated
  \/ ms_topup
  \/ ms_topup_end
  \/ ms_while

ScheduleSpec == ScheduleInit /\ [][ScheduleNext]_vars

\* ------------------------------------------------------------------- claims
\* number of collaborator calls of one kind in a list of events
Count(events, call) == Cardinality({k \in 1 .. Len(events) : events[k].call = call})
\* positions of the collaborator calls of one kind
Positions(events, call) == {k \in 1 .. Len(events) : events[k].call = call}
HasNoTree(i) == DOMAIN trained_trees[i] = {}
HasNoStats(i) == DOMAIN stats[i] = {}
FirstIndex(S) == CHOOSE k \in S : \A j \in S : k <= j
ListArgErrors == {"ValueError: new_metrics", "ValueError: new_expl"}
ReportArgErrors == {"ValueError: filter_conf", "ValueError: node_filter"}
ConfigErrors == {"ValueError: max_depth must be non-negative",
                 "ValueError: min_leaf_size must be positive",
                 "ValueError: score_aggregation",
                 "ValueError: max_bins must be positive",
                 "ValueError: Unknown fairness Metric",
                 "ValueError: filter_conf", "ValueError: node_filter"}
\* the failed call left every investigation and every holdout as it was and
\* called no collaborator
NothingDone == /\ UNCHANGED inv_fields
               /\ UNCHANGED test_sets_drawn
               /\ last'.events = <<>>
\* the positions of last'.invs holding an untrained investigation / an
\* investigation of another holdout than the first's, in the state before the call
UntrainedAt == {k \in 1 .. Len(last'.invs) : HasNoTree(last'.invs[k])}
MismatchAt == {k \in 1 .. Len(last'.invs) : holdout[last'.invs[k]] # holdout[last'.invs[1]]}

\* C1 (as stated): test() on a list containing an investigation with no trained
\* tree raises 'Investigation was not trained', changes no field of any
\* investigation and draws no test set.
C1_AsStated ==
  [][(last'.op = "test" /\ UntrainedAt # {})
       => (last'.result = NotTrainedError /\ NothingDone)]_vars

\* C1 (amended): unless the call is rejected for the lengths of new_metrics or
\* new_expl, test() on a list containing an untrained investigation raises,
\* before the draw and before any change, 'Investigation was not trained', or
\* the same-holdout error when an investigation placed before the first
\* untrained one uses another holdout than the first of the list.
C1_UntrainedRejected ==
  [][(last'.op = "test" /\ last'.result \notin ListArgErrors /\ UntrainedAt # {})
       => /\ last'.result = IF \E j \in MismatchAt : j < FirstIndex(UntrainedAt)
                           THEN HoldoutError ELSE NotTrainedError
          /\ NothingDone]_vars

\* C1 witness: a test() call on a list mixing a trained and an untrained
\* investigation was rejected as not trained
C1_Witness ==
  /\ last.op = "test" /\ last.result = NotTrainedError
  /\ \E j, k \in 1 .. Len(last.invs) : HasNoTree(last.invs[k]) /\ ~HasNoTree(last.invs[j])

\* C2 (as stated): test() on investigations that do not all reference the same
\* holdout raises the same-holdout error, mutates nothing and draws no test set.
C2_AsStated ==
  [][(last'.op = "test" /\ MismatchAt # {})
       => (last'.result = HoldoutError /\ NothingDone)]_vars

\* C2 (amended): unless the call is rejected for the lengths of new_metrics or
\* new_expl, test() on investigations that do not all reference the same
\* holdout raises, before the draw and before any change, the same-holdout
\* error, or 'Investigation was not trained' when an investigation at or before
\* the first one of another holdout is untrained.
C2_MixedHoldoutsRejected ==
  [][(last'.op = "test" /\ last'.result \notin ListArgErrors /\ MismatchAt # {})
       => /\ last'.result = IF \E j \in UntrainedAt : j <= FirstIndex(MismatchAt)
                           THEN NotTrainedError ELSE HoldoutError
          /\ NothingDone]_vars

\* C2 witness: a test() call on two trained investigations of different
\* holdouts was rejected with the same-holdout error
C2_Witness ==
  /\ last.op = "test" /\ last.result = HoldoutError
  /\ Len(last.invs) = 2
  /\ holdout[last.invs[1]] # holdout[last.invs[2]]
  /\ \A k \in 1 .. 2 : ~HasNoTree(last.invs[k])

\* C3: a test() call that fails after drawing the test set hands the test set
\* back through holdout.return_unused_data before the error reaches the caller.
C3_DrawnTestSetReturned ==
  (last.op = "test" /\ last.result # "ok" /\ Count(last.events, "get_test_set") > 0)
    => \E k \in Positions(last.events, "return_unused_data") :
         \A j \in Positions(last.events, "get_test_set") : j < k

\* C4: a call of train(), test() or report() that fails with a configuration
\* error has modified no field of any investigation and drawn no test set.
C4_ConfigErrorsAtEntry ==
  [][(last'.op \in {"train", "test", "report"} /\ last'.result \in ConfigErrors)
       => NothingDone]_vars

\* C5 (as stated): report() on a list containing an investigation without
\* statistics raises 'Investigation was not tested' before any display_params
\* changes, any file is opened and any report text is produced.
C5_AsStated ==
  [][(last'.op = "report" /\ \E k \in 1 .. Len(last'.invs) : HasNoStats(last'.invs[k]))
       => (last'.result = NotTestedError /\ NothingDone)]_vars

\* C5 (amended): when filter_conf and node_filter are valid, report() on a list
\* containing an investigation without statistics raises 'Investigation was not
\* tested' before any display_params changes, any file is opened and any report
\* text is produced.
C5_UntestedRejected ==
  [][(/\ last'.op = "report" /\ last'.result \notin ReportArgErrors
      /\ \E k \in 1 .. Len(last'.invs) : HasNoStats(last'.invs[k]))
       => (last'.result = NotTestedError /\ NothingDone)]_vars

\* C5 witness: a report() call on a list mixing a tested and an untested
\* investigation was rejected as not tested
C5_Witness ==
  /\ last.op = "report" /\ last.result = NotTestedError
  /\ \E j, k \in 1 .. Len(last.invs) : HasNoStats(last.invs[k]) /\ ~HasNoStats(last.invs[j])

\* C6: test() extracts contexts for an investigation only if a trained tree is
\* stored for each of its protected features; an investigation with a tree for
\* only some of them is rejected before the test set is drawn.
C6_AllFeaturesTrained ==
  last.op = "test" =>
    /\ \A k \in Positions(last.events, "find_contexts") :
         Elems(sens_features[last.events[k].inv]) \subseteq
           DOMAIN trained_trees[last.events[k].inv]
    /\ (\E k \in 1 .. Len(last.invs) :
          ~(Elems(sens_features[last.invs[k]]) \subseteq DOMAIN trained_trees[last.invs[k]]))
         => Count(last.events, "get_test_set") = 0

\* C7: in every reachable state, after successful or failed calls, the
\* statistics stored for a protected feature are the records computed for
\* exactly the contexts currently stored for it, so that report() never pairs
\* contexts with the statistics of another test run.  (The claim asks further
\* that both stem from the tree currently stored.)
C7_StatsMatchContexts ==
  \A i \in Invs : \A s \in DOMAIN stats[i] :
    /\ s \in DOMAIN contexts[i]
    /\ stats[i][s].of = contexts[i][s]

\* whether the investigations of last.invs are all trained and of one holdout
\* (test() changes neither trained_trees nor holdout)
PassChecks == \A k \in 1 .. Len(last.invs) :
                ~HasNoTree(last.invs[k]) /\ holdout[last.invs[k]] = holdout[last.invs[1]]

\* C8: a test() call invokes get_test_set at most once: once when every
\* investigation passes the trained and same-holdout checks, never when a check
\* fails; each investigation is tested on a copy of that test set to which no
\* other investigation's preprocessing was applied.
C8_OneDrawOwnCopy ==
  last.op = "test" =>
    /\ Count(last.events, "get_test_set") <= 1
    /\ last.result \in ListArgErrors => Count(last.events, "get_test_set") = 0
    /\ last.result \notin ListArgErrors =>
         (Count(last.events, "get_test_set") = 1 <=> PassChecks)
    /\ \A k \in Positions(last.events, "find_contexts") :
         LET drawn == last.events[1].arg
             seen == last.events[k].arg.data
         IN /\ last.events[1].call = "get_test_set"
            /\ seen.seen_by = {last.events[k].inv}
            /\ seen = [drawn EXCEPT !.seen_by = {last.events[k].inv}]

\* C8 witness: a test() call on two investigations extracted contexts for both
C8_Witness ==
  /\ last.op = "test" /\ last.result = "ok" /\ Len(last.invs) = 2
  /\ \A k \in 1 .. 2 : \E e \in Positions(last.events, "find_contexts") :
       last.events[e].inv = last.invs[k]

\* the (investigation, protected feature) pairs of a list of investigations
Pairs(invs) == {<<invs[k], s>> : k \in 1 .. Len(invs), s \in {"s1", "s2"}} \cap
               {<<i, s>> \in Invs \X {"s1", "s2"} : s \in Elems(sens_features[i])}

\* C9: in a test() call compute_all_stats is invoked at most once, for the whole
\* list, as the last collaborator call and after the contexts of every protected
\* feature of every investigation of the list were extracted; a call that
\* returns normally invokes it exactly once.
C9_JointValidationLast ==
  last.op = "test" =>
    /\ Count(last.events, "compute_all_stats") <= 1
    /\ last.result = "ok" => Count(last.events, "compute_all_stats") = 1
    /\ \A k \in Positions(last.events, "compute_all_stats") :
         /\ k = Len(last.events)
         /\ last.events[k].arg = last.invs
         /\ \A pr \in Pairs(last.invs) :
              \E j \in 1 .. k - 1 : /\ last.events[j].call = "find_contexts"
                                    /\ last.events[j].inv = pr[1]
                                    /\ last.events[j].sens = pr[2]
                                    /\ contexts[pr[1]][pr[2]] = last.events[j].arg

\* C9 witness: a test() call on two investigations, one of them with two
\* protected features, ran the joint validation
C9_Witness ==
  /\ last.op = "test" /\ Count(last.events, "compute_all_stats") = 1
  /\ Len(last.invs) = 2
  /\ \E k \in 1 .. 2 : Len(sens_features[last.invs[k]]) = 2

\* the bug reports a report() call on invs is to output, in list order
RECURSIVE ExpectedReports(_, _)
ExpectedReports(invs, k) ==
  IF k > Len(invs) THEN <<>>
  ELSE [j \in 1 .. Len(sens_features[invs[k]]) |-> <<invs[k], sens_features[invs[k]][j]>>]
       \o ExpectedReports(invs, k + 1)
\* the bug reports among a list of events, in order
RECURSIVE ReportsMade(_, _)
ReportsMade(events, k) ==
  IF k > Len(events) THEN <<>>
  ELSE (IF events[k].call = "bug_report" THEN <<<<events[k].inv, events[k].sens>>>>
        ELSE <<>>) \o ReportsMade(events, k + 1)

\* C10: a report() call that succeeds outputs one bug report per protected
\* feature of each investigation of the list, in list order.
C10_OneReportPerFeature ==
  (last.op = "report" /\ last.result = "ok") => ReportsMade(last.events, 1) = ExpectedReports(last.invs, 1)

\* the configuration errors of train()
TrainConfigErrors == {"ValueError: max_depth must be non-negative",
                      "ValueError: min_leaf_size must be positive",
                      "ValueError: score_aggregation",
                      "ValueError: max_bins must be positive"}
\* the parameters that train() is to reject
BadTrainArgs(p) == \/ p.max_depth < 0
                   \/ p.min_leaf_size <= 0
                   \/ p.max_bins <= 0
                   \/ p.score_aggregation \notin {"avg", "weighted_avg", "max"}
\* the train_params entry and the tree of a train() call with parameters p
ParamsOf(p) == [max_depth |-> p.max_depth, min_leaf_size |-> p.min_leaf_size,
                agg_type |-> p.score_aggregation, max_bins |-> p.max_bins]
BuiltWith(tree, p) == /\ tree.max_depth = p.max_depth
                      /\ tree.min_leaf_size = p.min_leaf_size
                      /\ tree.agg_type = p.score_aggregation
                      /\ tree.max_bins = p.max_bins

\* C11: train() raises a configuration error exactly when max_depth < 0,
\* min_leaf_size <= 0, max_bins <= 0 or score_aggregation is not a recognized
\* policy; the rejected call has called build_tree for no feature and written
\* train_params and trained_trees of no investigation.
C11_TrainConfigChecked ==
  [][last'.op = "train" =>
       /\ last'.result \in TrainConfigErrors <=> BadTrainArgs(last'.args)
       /\ BadTrainArgs(last'.args) => (NothingDone /\ UNCHANGED generators)]_vars

\* C11 witness: a train() call with max_bins = 0 (every other parameter at an
\* accepted boundary value) was rejected on an investigation already trained
C11_Witness ==
  /\ last.op = "train" /\ last.result = "ValueError: max_bins must be positive"
  /\ last.args.max_bins = 0 /\ last.args.min_leaf_size = 1
  /\ \E k \in 1 .. Len(last.invs) : ~HasNoTree(last.invs[k])

\* C12: when train() returns normally, every investigation of the list holds
\* one tree per protected feature (the keys of trained_trees are sens_features),
\* each built in this call with the parameters of this call, and train_params
\* records the parameters of this call.
C12_OneTreePerFeature ==
  (last.op = "train" /\ last.result = "ok") =>
    /\ \A k \in 1 .. Len(last.invs) :
         LET i == last.invs[k]
         IN /\ DOMAIN trained_trees[i] = Elems(sens_features[i])
            /\ train_params[i] = ParamsOf(last.args)
            /\ \A s \in DOMAIN trained_trees[i] :
                 /\ trained_trees[i][s].sens = s
                 /\ BuiltWith(trained_trees[i][s], last.args)
                 /\ Cardinality({e \in Positions(last.events, "build_tree") :
                                   /\ last.events[e].inv = i
                                   /\ last.events[e].sens = s
                                   /\ last.events[e].arg.tree = trained_trees[i][s]}) = 1
    /\ Count(last.events, "build_tree") = Cardinality(Pairs(last.invs))

\* C12 witness: a train() call with max_depth = 0 returned normally on a list of
\* two investigations, one of them with two protected features
C12_Witness ==
  /\ last.op = "train" /\ last.result = "ok" /\ last.args.max_depth = 0
  /\ Len(last.invs) = 2
  /\ \E k \in 1 .. 2 : Len(sens_features[last.invs[k]]) = 2

\* C13: a train() call fails or succeeds regardless of earlier training,
\* testing or reporting of the investigations (its outcome depends on its
\* parameters and on the metrics configured only); a successful call replaces
\* the tree of every protected feature and train_params of the investigations
\* of the list, and every call leaves all their other fields (display_params
\* among them), and the investigations outside the list, as they were.
C13_RetrainOverwrites ==
  [][last'.op = "train" =>
       /\ last'.result = "ok" <=>
             /\ ~BadTrainArgs(last'.args)
             /\ \A k \in 1 .. Len(last'.invs) :
                  Elems(sens_features[last'.invs[k]]) \subseteq DOMAIN metrics[last'.invs[k]]
       /\ last'.result \in TrainConfigErrors \cup {"ok", "KeyError: metrics"}
       /\ UNCHANGED <<train_set, contexts, stats, test_params, display_params,
                      metrics, feature_info, sens_features, expl, test_set_size>>
       /\ last'.result = "ok" =>
             \A k \in 1 .. Len(last'.invs) :
               LET i == last'.invs[k]
               IN /\ train_params'[i] = ParamsOf(last'.args)
                  /\ DOMAIN trained_trees'[i] = Elems(sens_features[i])
                  /\ \A s \in DOMAIN trained_trees'[i] :
                       BuiltWith(trained_trees'[i][s], last'.args)
       /\ \A i \in Invs \ Elems(last'.invs) :
             trained_trees'[i] = trained_trees[i] /\ train_params'[i] = train_params[i]]_vars

\* C13 witness: a train() call with other parameters succeeded on an
\* investigation already trained, tested and reported, whose contexts,
\* statistics and display parameters are still those of the replaced tree
C13_Witness ==
  /\ last.op = "train" /\ last.result = "ok"
  /\ \E k \in 1 .. Len(last.invs) :
       LET i == last.invs[k]
       IN /\ "s1" \in DOMAIN stats[i]
          /\ contexts[i]["s1"].tree # trained_trees[i]["s1"]
          /\ display_params[i] # EmptyDict

\* C14: at entry to every build_tree call one of the process-wide generators
\* is in the state that seeding with the investigation's random_state gives,
\* whatever calls were made before; every compute_all_stats call is entered
\* right after numpy.random was seeded with the random_state of the first
\* investigation of the list.
C14_GeneratorsSeededAtEntry ==
  /\ last.op = "train" =>
       \A k \in Positions(last.events, "build_tree") :
         LET e == last.events[k]
         IN \/ e.arg.py_random = Seeded(random_state[e.inv])
            \/ e.arg.np_random = Seeded(random_state[e.inv])
  /\ last.op = "test" =>
       \A k \in Positions(last.events, "compute_all_stats") :
         /\ k > 1
         /\ last.events[k - 1].call = "np.random.seed"
         /\ last.events[k - 1].arg = random_state[last.invs[1]]

\* C15: every recognized metric identifier given as an override in new_metrics
\* is resolved to a metric (the lookup raises nothing), and every other string
\* ends the call with the unknown-metric ValueError.
C15_MetricLookup ==
  last.op = "test" =>
    \A k \in Positions(last.events, "metric_from_string") :
      IF last.events[k].arg \in {"NMI", "MI", "CORR", "DIFF", "RATIO", "REGRESSION",
                                 "CondDIFF", "CondNMI", "CondCorr"}
      THEN ~(k = Len(last.events) /\ last.result \notin {"ok", "KeyError: trained_trees"})
      ELSE k = Len(last.events) /\ last.result = "ValueError: Unknown fairness Metric"

\* the metric with which contexts were extracted: the override given to
\* find_contexts, or else the metric of the tree
MetricUsed(c) == IF c.metric.kind = "none" THEN c.tree.metric ELSE c.metric

\* C18: for every protected feature, the metric that report() names is the
\* metric with which the stored contexts of the feature were computed, also
\* when test() was given another metric in new_metrics.
C18_ReportedMetricIsUsed ==
  last.op = "report" =>
    \A k \in Positions(last.events, "bug_report") :
      last.events[k].arg.metric = MetricUsed(last.events[k].arg.contexts)

\* the columns of the training population once the to_drop columns are removed
ColumnsAfterDrop(a) ==
  {a.columns[k] : k \in 1 .. Len(a.columns)} \
    (IF a.to_drop.kind = "none" THEN {} ELSE {a.to_drop.v[k] : k \in 1 .. Len(a.to_drop.v)})
\* an empty protected list, an empty output name or an empty output list
IsEmptyArg(x) == \/ x.kind = "list" /\ Len(x.v) = 0
                 \/ x.kind = "str" /\ Len(x.v[1]) = 0

\* C16: the constructor fails, and yields no investigation, whenever a protected
\* feature name or an output name is not a column of the training population
\* after the to_drop columns are removed, and whenever the protected list or
\* the output is empty.
C16_MissingFeatureIsFatal ==
  built.done =>
    LET a == built.args
    IN (\/ IsEmptyArg(a.protected)
        \/ IsEmptyArg(a.output)
        \/ \E k \in 1 .. Len(a.protected.v) : a.protected.v[k] \notin ColumnsAfterDrop(a)
        \/ \E k \in 1 .. Len(a.output.v) : a.output.v[k] \notin ColumnsAfterDrop(a))
         => (built.err # "ok" /\ "sens_features" \notin DOMAIN built)

\* C16 witness: a constructor call whose to_drop removes its protected column
\* failed for the missing feature
C16_Witness ==
  /\ built.done /\ built.err = "ValueError: Feature not found"
  /\ built.args.protected = PyList(<<<<"s">>>>)
  /\ built.args.to_drop = PyList(<<<<"s">>>>)
  /\ built.args.output = PyStr(<<"o">>)

\* whether the column is listed as explanatory
ListedAsExpl(col, e) == IF e.kind = "str" THEN col = e.v[1]
                        ELSE \E k \in 1 .. Len(e.v) : e.v[k] = col

\* C17: after construction the feature registry has one entry for every column
\* of the training set that is not an output column and none for an output
\* column; the role of a column is 'sens' if it is listed as protected,
\* otherwise 'expl' if it is listed as explanatory, otherwise 'context'; and
\* sens_features is the set of the columns of role 'sens'.
C17_FeatureRegistry ==
  (built.done /\ built.err = "ok") =>
    LET a == built.args
        cols == built.train_set.columns
    IN /\ DOMAIN built.feature_info =
            {cols[k] : k \in 1 .. Len(cols)} \ {a.output.v[k] : k \in 1 .. Len(a.output.v)}
       /\ \A col \in DOMAIN built.feature_info :
            built.feature_info[col] =
              IF \E k \in 1 .. Len(a.protected.v) : a.protected.v[k] = col THEN "sens"
              ELSE IF ListedAsExpl(col, a.expl) THEN "expl"
              ELSE "context"
       /\ {built.sens_features[k] : k \in 1 .. Len(built.sens_features)} =
            {col \in DOMAIN built.feature_info : built.feature_info[col] = "sens"}

\* the units a schedule assigns in one shift
RECURSIVE UnitsAssigned(_, _)
UnitsAssigned(d, zips) ==
  IF zips = {} THEN 0
  ELSE LET z == CHOOSE x \in zips : TRUE
       IN d[z] + UnitsAssigned(d, zips \ {z})

\* C19: when make_schedule returns, the units assigned to the zipcodes of every
\* shift of weights sum to exactly total_units.
C19_AllUnitsAssigned ==
  ms.pc = "done" =>
    \A n \in 1 .. Len(ms.weights) :
      LET shift == ms.weights[n][1]
      IN UnitsAssigned(ms.schedule[shift], DOMAIN ms.schedule[shift]) = ms.total_units

\* C20: make_schedule terminates: whenever the top-up loop of a shift runs, the
\* units allocated do not exceed total_units, so that handing out one unit at a
\* time reaches allocated == total_units (the loop ends on equality only).
C20_TopUpReachesTotal ==
  ms.pc \in {"topup", "while"} => ms.allocated <= ms.total_units

\* the proportional share of the k-th entry of a weight list
ShareOf(l, k, total_units) == (l[k][2] * total_units) \div 4
\* whether the schedule d of a shift with weight list l is the greedy one: an
\* entry's zipcode is scheduled iff the entry's share is at least 1, it gets at
\* least that share, and of two scheduled entries the earlier has as many
\* extra units as the later, or one more
GreedyShares(l, d, total_units) ==
  /\ \A k \in 1 .. Len(l) : (l[k][1] \in DOMAIN d) <=> (ShareOf(l, k, total_units) >= 1)
  /\ \A k \in 1 .. Len(l) :
       (l[k][1] \in DOMAIN d /\ ShareOf(l, k, total_units) >= 1)
         => d[l[k][1]] >= ShareOf(l, k, total_units)
  /\ \A j, k \in 1 .. Len(l) :
       (/\ j < k
        /\ l[j][1] \in DOMAIN d /\ ShareOf(l, j, total_units) >= 1
        /\ l[k][1] \in DOMAIN d /\ ShareOf(l, k, total_units) >= 1)
         => (d[l[j][1]] - ShareOf(l, j, total_units))
              - (d[l[k][1]] - ShareOf(l, k, total_units)) \in {0, 1}

\* C21: in the schedule that make_schedule returns, a zipcode receives units in
\* a shift iff its proportional share int(weight * total_units) is at least 1,
\* it receives at least that share, and the extra units of two scheduled
\* zipcodes differ by at most one, the earlier in the list never having fewer.
C21_GreedySchedule ==
  ms.pc = "done" =>
    \A n \in 1 .. Len(ms.weights) :
      GreedyShares(ms.weights[n][2], ms.schedule[ms.weights[n][1]], ms.total_units)

\* C21, for the tables that list every zipcode once per shift: the schedule
\* returned is the greedy one.
C21_GreedyScheduleOfDistinctZipcodes ==
  (/\ ms.pc = "done"
   /\ \A n \in 1 .. Len(ms.weights) :
        \A j, k \in 1 .. Len(ms.weights[n][2]) :
          j # k => ms.weights[n][2][j][1] # ms.weights[n][2][k][1])
    => \A n \in 1 .. Len(ms.weights) :
         GreedyShares(ms.weights[n][2], ms.schedule[ms.weights[n][1]], ms.total_units)
====
